---- MODULE Spec2Model ----
(***************************************************************************)
(* Model of projects/unit3/build-mcp-server/starter/server.py: the three   *)
(* MCP tools analyze_file_changes, get_pr_templates and suggest_template.  *)
(*                                                                         *)
(* Text is a sequence of tokens.  A token is a one-character string        *)
(* ("a", "\n", " ") or a chunk: a string that stands for a run of          *)
(* characters holding no newline (a branch name, a marker sentence).       *)
(* str.split('\n'), str.strip(), '\n'.join and list slicing are computed   *)
(* on these sequences as Python computes them on strings.                  *)
(***************************************************************************)
EXTENDS Integers, Sequences, FiniteSets, TLC

(* ------------------------------ bounds -------------------------------- *)

\* longest stdout of the full-diff query, in characters
MaxDiffLen == 4

\* largest max_diff_lines argument tried (the smallest is -1)
MaxLinesArg == 3

(* --------------------------- text helpers ----------------------------- *)

NL == "\n"

None == "None"

Min(a, b) == IF a < b THEN a ELSE b

Max(a, b) == IF a > b THEN a ELSE b

\* all texts over alphabet of at most n characters
Texts(alphabet, n) == UNION {[1..k -> alphabet] : k \in 0..n}

\* str.split('\n'): always at least one element; "" gives [""]
RECURSIVE Split(_)
Split(s) ==
    IF \A i \in 1..Len(s) : s[i] # NL
    THEN <<s>>
    ELSE LET i == CHOOSE k \in 1..Len(s) :
                      s[k] = NL /\ \A j \in 1..(k - 1) : s[j] # NL
         IN <<SubSeq(s, 1, i - 1)>> \o Split(SubSeq(s, i + 1, Len(s)))

\* '\n'.join(lines)
RECURSIVE Join(_)
Join(lines) ==
    IF lines = <<>> THEN <<>>
    ELSE IF Len(lines) = 1 THEN lines[1]
    ELSE lines[1] \o <<NL>> \o Join(Tail(lines))

\* lines[:n], with Python's meaning of a negative n
SliceTo(lines, n) ==
    IF n >= 0 THEN SubSeq(lines, 1, Min(n, Len(lines)))
    ELSE SubSeq(lines, 1, Max(Len(lines) + n, 0))

IsSpace(c) == c \in {" ", NL, "\t"}

\* str.strip() followed by reading the remaining tokens as one string
RECURSIVE Concat(_)
Concat(s) == IF s = <<>> THEN "" ELSE Head(s) \o Concat(Tail(s))

RECURSIVE LStrip(_)
LStrip(s) == IF s # <<>> /\ IsSpace(Head(s)) THEN LStrip(Tail(s)) ELSE s

RECURSIVE RStrip(_)
RStrip(s) ==
    IF s # <<>> /\ IsSpace(s[Len(s)]) THEN RStrip(SubSeq(s, 1, Len(s) - 1)) ELSE s

Strip(s) == Concat(RStrip(LStrip(s)))

\* json.dumps / json.loads: the response is a text document, not the object
JsonDumps(v) == [json |-> v]

JsonLoads(doc) == doc.json

(* ----------------------- analyze_file_changes ------------------------- *)

VARIABLES
    pc,                 \* position of the invocation in analyze_file_changes
    base_branch, include_diff, max_diff_lines, working_directory,  \* arguments
    cwd, debug_info,
    current_branch, comparison_base,
    issued,             \* the subprocess.run calls made so far, in order
    files_result, stat_result, diff_result,
    diff_lines, diff_content, truncated,
    commits_result,
    outcome,            \* "none" | "returned" | "raised"
    response            \* the returned JSON document

(* ------------------ get_pr_templates / suggest_template --------------- *)

VARIABLES
    store,              \* template files present under TEMPLATES_DIR
    serving,            \* mcp.run() has been entered
    t_call,             \* the last template tool call and its arguments
    t_outcome,          \* "none" | "returned" | "raised"
    t_response

avars == <<pc, base_branch, include_diff, max_diff_lines, working_directory,
           cwd, debug_info, current_branch, comparison_base, issued,
           files_result, stat_result, diff_result, diff_lines, diff_content,
           truncated, commits_result, outcome, response>>

tvars == <<store, serving, t_call, t_outcome, t_response>>

vars == <<avars, tvars>>

(* ------------------- collaborators of analyze ------------------------ *)

\* os.getcwd() of the server process
ServerCwd == "/server"

\* str(Path(__file__).parent)
ServerFileLocation == "/srv/starter"

\* path of the first root the client reports through list_roots()
ClientRoot == "/client"

BaseBranches == {"main", "dev"}

WorkingDirectories == {None, "/repo"}

\* what `git branch --show-current` may print (nothing on a detached HEAD)
BranchOutputs == {<<>>, <<"main", NL>>, <<"dev", NL>>}

\* what the name-status, stat and log queries may print
ShortOutputs == {<<>>, <<"a", NL>>}

\* what the full-diff query may print
DiffOutputs == Texts({"a", NL}, MaxDiffLen)

\* a completed subprocess.run(capture_output=True, text=True): the exit status
\* and the captured streams; stdout is captured whatever the exit status is
Completed(stdouts) ==
    {[returncode |-> 0, stdout |-> out, stderr |-> ""] : out \in stdouts}
    \cup
    {[returncode |-> 128, stdout |-> out, stderr |-> "fatal: bad revision"] :
        out \in stdouts}

\* subprocess.run raising before any process ran (bad cwd, no git binary)
SpawnErrors == {"[Errno 2] No such file or directory"}

NotRun == [returncode |-> -1, stdout |-> <<>>, stderr |-> ""]

NoDocument == <<>>

\* subprocess.run(check=...) raises CalledProcessError on a non-zero exit
RaisesNever(check, res) == FALSE

RaisesCalledProcessError(check, res) == check /\ res.returncode # 0

\* the ref range every diff/log query is given
Range(ref) == ref \o "...HEAD"

BranchCmd == <<"git", "branch", "--show-current">>

NameStatusCmd(ref) == <<"git", "diff", "--name-status", Range(ref)>>

StatCmd(ref) == <<"git", "diff", "--stat", Range(ref)>>

DiffCmd(ref) == <<"git", "diff", Range(ref)>>

LogCmd(ref) == <<"git", "log", "--oneline", Range(ref)>>

Run(kind, argv, dir) == [kind |-> kind, argv |-> argv, cwd |-> dir]

(* ----------------------- pure steps of analyze ------------------------ *)

\* lines 148-155 with the local name always chosen
ComparisonBaseLocalOnly(current, base) == base

\* lines 148-155: the ref HEAD is compared against
ComparisonBase(current, base) ==
    IF current = base THEN "origin/" \o base ELSE base

ComparisonStrategy(current, base) ==
    IF current = base
    THEN "On " \o base \o " branch, comparing with origin/" \o base
    ELSE "On feature branch '" \o current \o "', comparing with " \o base

\* the three strings appended at lines 194-195
TruncationMarker(shown, total) ==
    <<NL, NL,
      "... Output truncated. Showing " \o ToString(shown) \o " of "
          \o ToString(total) \o " lines ...",
      NL,
      "... Use max_diff_lines parameter to see more ...">>

\* lines 189-198 with >= for >
TruncateDiffAtLimit(stdout, max_lines) ==
    LET lines == Split(stdout) IN
    IF Len(lines) >= max_lines
    THEN [diff_lines |-> lines,
          diff_content |-> Join(SliceTo(lines, max_lines))
                            \o TruncationMarker(max_lines, Len(lines)),
          truncated |-> TRUE]
    ELSE [diff_lines |-> lines, diff_content |-> stdout, truncated |-> FALSE]

\* lines 189-198 keeping one line too many
TruncateDiffOneMore(stdout, max_lines) ==
    LET lines == Split(stdout) IN
    IF Len(lines) > max_lines
    THEN [diff_lines |-> lines,
          diff_content |-> Join(SliceTo(lines, max_lines + 1))
                            \o TruncationMarker(max_lines, Len(lines)),
          truncated |-> TRUE]
    ELSE [diff_lines |-> lines, diff_content |-> stdout, truncated |-> FALSE]

\* lines 189-198: split, compare with the budget, cut and mark
TruncateDiff(stdout, max_lines) ==
    LET lines == Split(stdout) IN
    IF Len(lines) > max_lines
    THEN [diff_lines |-> lines,
          diff_content |-> Join(SliceTo(lines, max_lines))
                            \o TruncationMarker(max_lines, Len(lines)),
          truncated |-> TRUE]
    ELSE [diff_lines |-> lines, diff_content |-> stdout, truncated |-> FALSE]

DiffPlaceholder == <<"Diff not included (set include_diff=true to see full diff)">>

\* the step after the stat query, running the diff query unconditionally
AfterStatAlwaysDiff(inc) == "diff"

\* line 182: the diff query runs only when asked for
AfterStat(inc) == IF inc THEN "diff" ELSE "commits"

\* lines 208-217: the report
Analysis(commits) ==
    [base_branch |-> base_branch,
     files_changed |-> files_result.stdout,
     statistics |-> stat_result.stdout,
     commits |-> commits.stdout,
     diff |-> IF include_diff THEN diff_content ELSE DiffPlaceholder,
     truncated |-> truncated,
     total_diff_lines |-> IF include_diff THEN Len(diff_lines) ELSE 0,
     _debug |-> debug_info]

\* the except clauses with the catch-all missing
ExceptGitOnly(exc) ==
    IF exc.type = "CalledProcessError"
    THEN [outcome |-> "returned",
          response |-> JsonDumps([error |-> "Git error: " \o exc.stderr])]
    ELSE [outcome |-> "raised", response |-> NoDocument]

\* lines 221-224: both except clauses return an error document
Except(exc) ==
    IF exc.type = "CalledProcessError"
    THEN [outcome |-> "returned",
          response |-> JsonDumps([error |-> "Git error: " \o exc.stderr])]
    ELSE [outcome |-> "returned", response |-> JsonDumps([error |-> exc.msg])]

CalledProcessError(res) ==
    [type |-> "CalledProcessError", stderr |-> res.stderr, msg |-> "non-zero exit"]

OSError(msg) == [type |-> "OSError", stderr |-> "", msg |-> msg]

(* ----------------------- steps of analyze ----------------------------- *)

\* leaving through an except clause (lines 221-224)
Raise(exc) ==
    /\ pc' = "done"
    /\ outcome' = Except(exc).outcome
    /\ response' = Except(exc).response

\* the tool is called over the running server: the arguments are bound
Invoke(base, inc, max_lines, wd) ==
    /\ serving
    /\ pc = "idle"
    /\ pc' = "workdir"
    /\ base_branch' = base
    /\ include_diff' = inc
    /\ max_diff_lines' = max_lines
    /\ working_directory' = wd
    /\ UNCHANGED <<cwd, debug_info, current_branch, comparison_base, issued,
                   files_result, stat_result, diff_result, diff_lines,
                   diff_content, truncated, commits_result, outcome, response,
                   tvars>>

\* the caller has the response; the invocation's locals are gone
Complete ==
    /\ pc = "done"
    /\ pc' = "idle"
    /\ base_branch' = "main"
    /\ include_diff' = TRUE
    /\ max_diff_lines' = 0
    /\ working_directory' = None
    /\ cwd' = None
    /\ debug_info' = <<>>
    /\ current_branch' = ""
    /\ comparison_base' = ""
    /\ issued' = <<>>
    /\ files_result' = NotRun
    /\ stat_result' = NotRun
    /\ diff_result' = NotRun
    /\ diff_lines' = <<>>
    /\ diff_content' = <<>>
    /\ truncated' = FALSE
    /\ commits_result' = NotRun
    /\ outcome' = "none"
    /\ response' = NoDocument
    /\ UNCHANGED tvars

\* lines 97-118: the working directory is the argument, else the first root
\* of the client, else the server's own directory
ResolveWorkingDirectory ==
    /\ pc = "workdir"
    /\ \E roots_ok \in BOOLEAN :
          LET wd == IF working_directory = None /\ roots_ok
                    THEN ClientRoot ELSE working_directory
              dir == IF wd # None THEN wd ELSE ServerCwd
          IN /\ working_directory' = wd
             /\ cwd' = dir
             /\ debug_info' = [provided_working_directory |-> wd,
                               actual_cwd |-> dir,
                               server_process_cwd |-> ServerCwd,
                               server_file_location |-> ServerFileLocation,
                               roots_check |-> None]
    /\ pc' = "roots"
    /\ UNCHANGED <<base_branch, include_diff, max_diff_lines, current_branch,
                   comparison_base, issued, files_result, stat_result,
                   diff_result, diff_lines, diff_content, truncated,
                   commits_result, outcome, response, tvars>>

\* lines 124-136: the second list_roots() call, for the debug block only
RootsCheck ==
    /\ pc = "roots"
    /\ \E found \in BOOLEAN :
          debug_info' = [debug_info EXCEPT !.roots_check = [found |-> found]]
    /\ pc' = "branch"
    /\ UNCHANGED <<base_branch, include_diff, max_diff_lines, working_directory,
                   cwd, current_branch, comparison_base, issued, files_result,
                   stat_result, diff_result, diff_lines, diff_content,
                   truncated, commits_result, outcome, response, tvars>>

\* lines 139-158: the current-branch query and the choice of the ref
CurrentBranch ==
    /\ pc = "branch"
    /\ issued' = Append(issued, Run("branch", BranchCmd, cwd))
    /\ \/ \E res \in Completed(BranchOutputs) :
            LET cur == Strip(res.stdout) IN
            /\ ~RaisesCalledProcessError(FALSE, res)
            /\ current_branch' = cur
            /\ comparison_base' = ComparisonBase(cur, base_branch)
            /\ debug_info' =
                 [comparison_strategy |-> ComparisonStrategy(cur, base_branch),
                  current_branch |-> cur,
                  comparison_base |-> ComparisonBase(cur, base_branch)]
                 @@ debug_info
            /\ pc' = "files"
            /\ UNCHANGED <<outcome, response>>
       \/ \E msg \in SpawnErrors :
            /\ Raise(OSError(msg))
            /\ UNCHANGED <<current_branch, comparison_base, debug_info>>
    /\ UNCHANGED <<base_branch, include_diff, max_diff_lines, working_directory,
                   cwd, files_result, stat_result, diff_result, diff_lines,
                   diff_content, truncated, commits_result, tvars>>

\* lines 161-167: the mandatory name-status query (check=True)
NameStatus ==
    /\ pc = "files"
    /\ issued' = Append(issued, Run("name-status", NameStatusCmd(comparison_base), cwd))
    /\ \/ \E res \in Completed(ShortOutputs) :
            /\ files_result' = res
            /\ IF RaisesCalledProcessError(TRUE, res)
               THEN Raise(CalledProcessError(res))
               ELSE /\ pc' = "stat"
                    /\ UNCHANGED <<outcome, response>>
       \/ \E msg \in SpawnErrors :
            /\ Raise(OSError(msg))
            /\ UNCHANGED files_result
    /\ UNCHANGED <<base_branch, include_diff, max_diff_lines, working_directory,
                   cwd, debug_info, current_branch, comparison_base,
                   stat_result, diff_result, diff_lines, diff_content,
                   truncated, commits_result, tvars>>

\* lines 172-182: the stat query, then the test of include_diff
Stat ==
    /\ pc = "stat"
    /\ issued' = Append(issued, Run("stat", StatCmd(comparison_base), cwd))
    /\ \/ \E res \in Completed(ShortOutputs) :
            /\ stat_result' = res
            /\ IF RaisesCalledProcessError(FALSE, res)
               THEN Raise(CalledProcessError(res))
               ELSE /\ pc' = AfterStat(include_diff)
                    /\ UNCHANGED <<outcome, response>>
       \/ \E msg \in SpawnErrors :
            /\ Raise(OSError(msg))
            /\ UNCHANGED stat_result
    /\ UNCHANGED <<base_branch, include_diff, max_diff_lines, working_directory,
                   cwd, debug_info, current_branch, comparison_base,
                   files_result, diff_result, diff_lines, diff_content,
                   truncated, commits_result, tvars>>

\* lines 183-198: the full-diff query and its truncation
FullDiff ==
    /\ pc = "diff"
    /\ issued' = Append(issued, Run("diff", DiffCmd(comparison_base), cwd))
    /\ \/ \E res \in Completed(DiffOutputs) :
            LET t == TruncateDiff(res.stdout, max_diff_lines) IN
            /\ diff_result' = res
            /\ IF RaisesCalledProcessError(FALSE, res)
               THEN /\ Raise(CalledProcessError(res))
                    /\ UNCHANGED <<diff_lines, diff_content, truncated>>
               ELSE /\ diff_lines' = t.diff_lines
                    /\ diff_content' = t.diff_content
                    /\ truncated' = t.truncated
                    /\ pc' = "commits"
                    /\ UNCHANGED <<outcome, response>>
       \/ \E msg \in SpawnErrors :
            /\ Raise(OSError(msg))
            /\ UNCHANGED <<diff_result, diff_lines, diff_content, truncated>>
    /\ UNCHANGED <<base_branch, include_diff, max_diff_lines, working_directory,
                   cwd, debug_info, current_branch, comparison_base,
                   files_result, stat_result, commits_result, tvars>>

\* lines 201-219: the commit-log query, the report and its return
CommitLog ==
    /\ pc = "commits"
    /\ issued' = Append(issued, Run("log", LogCmd(comparison_base), cwd))
    /\ \/ \E res \in Completed(ShortOutputs) :
            /\ commits_result' = res
            /\ IF RaisesCalledProcessError(FALSE, res)
               THEN Raise(CalledProcessError(res))
               ELSE /\ pc' = "done"
                    /\ outcome' = "returned"
                    /\ response' = JsonDumps(Analysis(res))
       \/ \E msg \in SpawnErrors :
            /\ Raise(OSError(msg))
            /\ UNCHANGED commits_result
    /\ UNCHANGED <<base_branch, include_diff, max_diff_lines, working_directory,
                   cwd, debug_info, current_branch, comparison_base,
                   files_result, stat_result, diff_result, diff_lines,
                   diff_content, truncated, tvars>>

(* ------------------------- template tools ----------------------------- *)

\* lines 23-31, in insertion order
DEFAULT_TEMPLATES ==
    <<[filename |-> "bug.md", type |-> "Bug Fix"],
      [filename |-> "feature.md", type |-> "Feature"],
      [filename |-> "docs.md", type |-> "Documentation"],
      [filename |-> "refactor.md", type |-> "Refactor"],
      [filename |-> "test.md", type |-> "Test"],
      [filename |-> "performance.md", type |-> "Performance"],
      [filename |-> "security.md", type |-> "Security"]>>

\* lines 34-48
TYPE_MAPPING ==
    ("bug" :> "bug.md") @@ ("fix" :> "bug.md")
    @@ ("feature" :> "feature.md") @@ ("enhancement" :> "feature.md")
    @@ ("docs" :> "docs.md") @@ ("documentation" :> "docs.md")
    @@ ("refactor" :> "refactor.md") @@ ("cleanup" :> "refactor.md")
    @@ ("test" :> "test.md") @@ ("testing" :> "test.md")
    @@ ("performance" :> "performance.md") @@ ("optimization" :> "performance.md")
    @@ ("security" :> "security.md")

TemplateFiles == {DEFAULT_TEMPLATES[i].filename : i \in 1..Len(DEFAULT_TEMPLATES)}

\* what read_text() gives for a file of the template directory
FileText(filename) == "<text of " \o filename \o ">"

\* the change_type arguments tried, as character sequences
ChangeTypes ==
    {<<"b", "u", "g">>,
     <<"f", "i", "x">>,
     <<"f", "e", "a", "t", "u", "r", "e">>,
     <<"e", "n", "h", "a", "n", "c", "e", "m", "e", "n", "t">>,
     <<"d", "o", "c", "s">>,
     <<"d", "o", "c", "u", "m", "e", "n", "t", "a", "t", "i", "o", "n">>,
     <<"r", "e", "f", "a", "c", "t", "o", "r">>,
     <<"c", "l", "e", "a", "n", "u", "p">>,
     <<"t", "e", "s", "t">>,
     <<"t", "e", "s", "t", "i", "n", "g">>,
     <<"p", "e", "r", "f", "o", "r", "m", "a", "n", "c", "e">>,
     <<"o", "p", "t", "i", "m", "i", "z", "a", "t", "i", "o", "n">>,
     <<"s", "e", "c", "u", "r", "i", "t", "y">>,
     <<"F", "i", "x">>,
     <<"B", "U", "G">>,
     <<"O", "p", "t", "i", "m", "i", "z", "a", "t", "i", "o", "n">>,
     <<"D", "O", "C", "S">>,
     <<>>,
     <<"c", "h", "o", "r", "e">>,
     <<"t", "e", "s", "t", " ">>,
     <<"b", "u", "g", "f", "i", "x">>}

Summaries == {"added caching layer", ""}

UpperCase == <<"A", "B", "C", "D", "E", "F", "G", "H", "I", "J", "K", "L", "M", "N", "O", "P", "Q", "R", "S", "T", "U", "V", "W", "X", "Y", "Z">>

LowerCase == <<"a", "b", "c", "d", "e", "f", "g", "h", "i", "j", "k", "l", "m", "n", "o", "p", "q", "r", "s", "t", "u", "v", "w", "x", "y", "z">>

\* str.lower(), character by character
LowerChar(c) ==
    IF \E i \in 1..Len(UpperCase) : UpperCase[i] = c
    THEN LowerCase[CHOOSE i \in 1..Len(UpperCase) : UpperCase[i] = c]
    ELSE c

Lower(s) == [i \in 1..Len(s) |-> LowerChar(s[i])]

\* line 258 falling back to the first catalog entry
TemplateFileFirstEntry(change_type) ==
    LET key == Concat(Lower(change_type)) IN
    IF key \in DOMAIN TYPE_MAPPING THEN TYPE_MAPPING[key]
    ELSE DEFAULT_TEMPLATES[1].filename

\* line 258: TYPE_MAPPING.get(change_type.lower(), "feature.md")
TemplateFile(change_type) ==
    LET key == Concat(Lower(change_type)) IN
    IF key \in DOMAIN TYPE_MAPPING THEN TYPE_MAPPING[key] ELSE "feature.md"

\* lines 260-263: next(matching template, templates[0])
SelectTemplate(templates, template_file) ==
    IF \E i \in 1..Len(templates) : templates[i].filename = template_file
    THEN templates[CHOOSE i \in 1..Len(templates) :
                      /\ templates[i].filename = template_file
                      /\ \A j \in 1..(i - 1) : templates[j].filename # template_file]
    ELSE templates[1]

\* lines 232-241: every file is read on every call; a missing one raises
ReadTemplates(files) ==
    IF TemplateFiles \subseteq files
    THEN [outcome |-> "returned",
          response |-> JsonDumps([i \in 1..Len(DEFAULT_TEMPLATES) |->
                           [filename |-> DEFAULT_TEMPLATES[i].filename,
                            type |-> DEFAULT_TEMPLATES[i].type,
                            content |-> FileText(DEFAULT_TEMPLATES[i].filename)]])]
    ELSE [outcome |-> "raised", response |-> NoDocument]

\* lines 265-270
Suggestion(selected, changes_summary, change_type) ==
    [recommended_template |-> selected,
     reasoning |-> "Based on your analysis: '" \o changes_summary
                   \o "', this appears to be a " \o Concat(change_type)
                   \o " change. ",
     template_content |-> selected.content,
     usage_hint |-> "Claude can help you fill out this template based on the specific changes in your PR."]

NoCall == [tool |-> "none", changes_summary |-> "", change_type |-> <<>>]

\* line 275: mcp.run(); nothing is read from the template directory
Serve ==
    /\ ~serving
    /\ serving' = TRUE
    /\ UNCHANGED <<avars, store, t_call, t_outcome, t_response>>

\* lines 229-241
GetPrTemplates ==
    /\ serving
    /\ t_call' = [NoCall EXCEPT !.tool = "get_pr_templates"]
    /\ t_outcome' = ReadTemplates(store).outcome
    /\ t_response' = ReadTemplates(store).response
    /\ UNCHANGED <<avars, store, serving>>

\* lines 244-271
SuggestTemplate(changes_summary, change_type) ==
    /\ serving
    /\ t_call' = [tool |-> "suggest_template",
                  changes_summary |-> changes_summary,
                  change_type |-> change_type]
    /\ LET got == ReadTemplates(store) IN
       IF got.outcome = "raised"
       THEN /\ t_outcome' = "raised"
            /\ t_response' = NoDocument
       ELSE LET templates == JsonLoads(got.response)
                selected == SelectTemplate(templates, TemplateFile(change_type))
            IN /\ t_outcome' = "returned"
               /\ t_response' =
                    JsonDumps(Suggestion(selected, changes_summary, change_type))
    /\ UNCHANGED <<avars, store, serving>>

(* --------------------------- specifications --------------------------- *)

InitAnalyze ==
    /\ pc = "idle"
    /\ base_branch = "main"
    /\ include_diff = TRUE
    /\ max_diff_lines = 0
    /\ working_directory = None
    /\ cwd = None
    /\ debug_info = <<>>
    /\ current_branch = ""
    /\ comparison_base = ""
    /\ issued = <<>>
    /\ files_result = NotRun
    /\ stat_result = NotRun
    /\ diff_result = NotRun
    /\ diff_lines = <<>>
    /\ diff_content = <<>>
    /\ truncated = FALSE
    /\ commits_result = NotRun
    /\ outcome = "none"
    /\ response = NoDocument

InitTools ==
    /\ serving = FALSE
    /\ t_call = NoCall
    /\ t_outcome = "none"
    /\ t_response = NoDocument

\* the server with its seven template files in place
Init == InitAnalyze /\ InitTools /\ store = TemplateFiles

\* the server started over any content of the template directory
InitTemplates == InitAnalyze /\ InitTools /\ store \in SUBSET TemplateFiles

Next ==
    \/ Serve
    \/ \E base \in BaseBranches, inc \in BOOLEAN,
          max_lines \in (-1)..MaxLinesArg, wd \in WorkingDirectories :
          Invoke(base, inc, max_lines, wd)
    \/ ResolveWorkingDirectory
    \/ RootsCheck
    \/ CurrentBranch
    \/ NameStatus
    \/ Stat
    \/ FullDiff
    \/ CommitLog
    \/ Complete

NextTemplates ==
    \/ Serve
    \/ GetPrTemplates
    \/ \E summary \in Summaries, change_type \in ChangeTypes :
          SuggestTemplate(summary, change_type)

Spec == Init /\ [][Next]_vars

SpecTemplates == InitTemplates /\ [][NextTemplates]_vars

(* ------------------------------ claims -------------------------------- *)

Returned == pc = "done" /\ outcome = "returned"

Doc == JsonLoads(response)

IsError == Returned /\ DOMAIN Doc = {"error"}

IsReport == Returned /\ "files_changed" \in DOMAIN Doc

Failed(res) == res.returncode \notin {0, -1}

\* the lines of a text as a reader counts them: a final newline ends the last
\* line and opens no further one, and the empty text has no line
OriginalLines(text) ==
    IF text = <<>> THEN <<>>
    ELSE IF text[Len(text)] = NL
         THEN SubSeq(Split(text), 1, Len(Split(text)) - 1)
         ELSE Split(text)

ShownLine(shown, total) ==
    "... Output truncated. Showing " \o ToString(shown) \o " of "
        \o ToString(total) \o " lines ..."

HintLine == "... Use max_diff_lines parameter to see more ..."

\* C1: in every report, truncated is true exactly when the diff was asked for
\* and total_diff_lines exceeds max_diff_lines; without the diff,
\* total_diff_lines is 0 and truncated is false.
C1_ReportConsistency ==
    IsReport =>
        /\ Doc.truncated <=> (include_diff /\ Doc.total_diff_lines > max_diff_lines)
        /\ ~include_diff => (Doc.total_diff_lines = 0 /\ ~Doc.truncated)

C1_Witness ==
    /\ IsReport /\ include_diff /\ max_diff_lines = 1
    /\ Doc.truncated /\ Doc.total_diff_lines = 2

\* the diff printed has exactly N+1 lines and max_diff_lines is N >= 0
C2_Boundary ==
    /\ IsReport /\ include_diff /\ max_diff_lines >= 0
    /\ Len(OriginalLines(diff_result.stdout)) = max_diff_lines + 1

\* C2 (as stated, for N >= 1): at the boundary the returned diff is the first
\* N original lines followed by exactly one marker line, and truncated is true.
C2_OneMarkerLine ==
    (C2_Boundary /\ max_diff_lines >= 1) =>
        /\ Doc.truncated
        /\ Len(Split(Doc.diff)) = max_diff_lines + 1
        /\ SubSeq(Split(Doc.diff), 1, max_diff_lines)
             = SubSeq(OriginalLines(diff_result.stdout), 1, max_diff_lines)

\* C2 (amended): at the boundary truncated is true and the returned diff is
\* the first N original lines joined by newlines, followed by the marker text:
\* a newline, an empty line, the "Showing N of T lines" line and the "Use
\* max_diff_lines" line, T being total_diff_lines.
C2_MarkerBlock ==
    C2_Boundary =>
        LET first == SubSeq(OriginalLines(diff_result.stdout), 1, max_diff_lines)
            shown == ShownLine(max_diff_lines, Doc.total_diff_lines)
        IN /\ Doc.truncated
           /\ Doc.diff = Join(first) \o <<NL, NL, shown, NL, HintLine>>
           /\ max_diff_lines >= 1 =>
                Split(Doc.diff) = first \o << <<>>, <<shown>>, <<HintLine>> >>

C2_Witness ==
    /\ C2_Boundary /\ max_diff_lines = 1
    /\ diff_result.stdout = <<"a", NL, NL>>
    /\ Split(Doc.diff) = << <<"a">>, <<>>, <<ShownLine(1, 3)>>, <<HintLine>> >>

\* C3: with the diff asked for (and a budget of at least 0 lines),
\* total_diff_lines is the number of lines the diff query printed; an empty
\* diff gives total_diff_lines 0 and truncated false.
C3_TotalIsLineCount ==
    (IsReport /\ include_diff /\ max_diff_lines >= 0) =>
        /\ Doc.total_diff_lines = Len(OriginalLines(diff_result.stdout))
        /\ diff_result.stdout = <<>> => (Doc.total_diff_lines = 0 /\ ~Doc.truncated)

\* C4: every diff/log query of an invocation compares HEAD against
\* origin/<base_branch> when the detected branch equals base_branch and
\* against <base_branch> otherwise, the empty detected branch included.
C4_RevisionResolution ==
    \A i \in 1..Len(issued) :
        issued[i].kind # "branch" =>
            LET range == issued[i].argv[Len(issued[i].argv)] IN
            /\ current_branch = base_branch => range = "origin/" \o base_branch \o "...HEAD"
            /\ current_branch # base_branch => range = base_branch \o "...HEAD"
            /\ (current_branch = "" /\ base_branch = "main") => range = "main...HEAD"

C4_Witness ==
    /\ IsReport /\ current_branch = "main" /\ base_branch = "main"
    /\ Len(issued) = 5
    /\ \A i \in 2..5 : issued[i].argv[Len(issued[i].argv)] = "origin/main...HEAD"

\* C5: when the name-status query exits non-zero the invocation ends at once
\* by returning the document {error: "Git error: <stderr>"}.
C5_ComparisonFailed ==
    Failed(files_result) =>
        /\ Returned
        /\ Doc = [error |-> "Git error: " \o files_result.stderr]

C5_Witness ==
    /\ Failed(files_result) /\ IsError
    /\ Doc.error = "Git error: fatal: bad revision"

\* C6: in every report (budget of at least 0 lines), the field of an optional
\* query that failed is empty text and the field of one that succeeded
\* carries what it printed.
C6_DegradesToEmpty ==
    (IsReport /\ max_diff_lines >= 0) =>
        /\ Failed(stat_result) => Doc.statistics = <<>>
        /\ Failed(commits_result) => Doc.commits = <<>>
        /\ (include_diff /\ Failed(diff_result)) => Doc.diff = <<>>
        /\ Doc.files_changed = files_result.stdout

\* C7: a recommendation names the template the synonym table gives for the
\* lower-cased change_type, and the feature template when it has no entry.
C7_DeterministicLookup ==
    (t_call.tool = "suggest_template" /\ t_outcome = "returned") =>
        LET key == Concat(Lower(t_call.change_type))
            chosen == JsonLoads(t_response).recommended_template
        IN /\ key \in DOMAIN TYPE_MAPPING => chosen.filename = TYPE_MAPPING[key]
           /\ key \notin DOMAIN TYPE_MAPPING => chosen.filename = "feature.md"
           /\ t_call.change_type \in {<<"f", "i", "x">>, <<"B", "U", "G">>}
                => chosen.filename = "bug.md"
           /\ t_call.change_type = <<>> => chosen.filename = "feature.md"
           /\ JsonLoads(t_response).template_content = FileText(chosen.filename)

C7_Witness ==
    /\ t_call.tool = "suggest_template" /\ t_outcome = "returned"
    /\ t_call.change_type = <<"c", "h", "o", "r", "e">>
    /\ JsonLoads(t_response).recommended_template.filename = "feature.md"

\* C8: no call of get_pr_templates or suggest_template fails, whatever the
\* template directory holds.
C8_NeverFailsPerCall ==
    t_call.tool # "none" => t_outcome = "returned"

ReportFields ==
    {"base_branch", "files_changed", "statistics", "commits", "diff",
     "truncated", "total_diff_lines"}

\* C9: an invocation never raises, and what it returns is either a document
\* with the single field error or a report with every field, the diff field
\* holding the placeholder when the diff was not asked for.
C9_WellFormedResponse ==
    /\ outcome # "raised"
    /\ pc = "done" =>
         /\ outcome = "returned"
         /\ \/ DOMAIN Doc = {"error"}
            \/ /\ ReportFields \subseteq DOMAIN Doc
               /\ ~include_diff => Doc.diff = DiffPlaceholder

C9_Witness ==
    /\ IsError /\ Doc.error \in SpawnErrors
    /\ Len(issued) = 3

Kinds == [i \in 1..Len(issued) |-> issued[i].kind]

QueryOrder ==
    IF include_diff
    THEN <<"branch", "name-status", "stat", "diff", "log">>
    ELSE <<"branch", "name-status", "stat", "log">>

\* C10: the queries issued so far are a prefix of current-branch, name-status,
\* stat, full diff (only when include_diff), commit log: each at most once,
\* in that order, the diff query never without include_diff and always with
\* it once the commit log is asked for; a report has issued them all; nothing
\* follows a failed name-status query.
C10_QueryOrder ==
    /\ Len(issued) <= Len(QueryOrder)
    /\ Kinds = SubSeq(QueryOrder, 1, Len(issued))
    /\ IsReport => Kinds = QueryOrder
    /\ Failed(files_result) => Kinds = <<"branch", "name-status">>

C10_Witness ==
    /\ pc = "done" /\ include_diff /\ Failed(files_result)
    /\ Kinds = <<"branch", "name-status">>

====
